---- MODULE Spec2Model ----
(***************************************************************************)
(* Model of src/main.rs (rusty-voucher): one linear run of `main`.         *)
(*                                                                         *)
(* The program is sequential; it blocks only on its inputs: a line of      *)
(* standard input or the response to the HTTP request it has just sent.    *)
(* Each action below is the code that runs from the arrival of one input   *)
(* up to the point where the program blocks on the next one (or returns).  *)
(*                                                                         *)
(* Text is a sequence of one-character strings, so trimming and integer    *)
(* parsing are computed character by character as the library does.        *)
(*                                                                         *)
(* Environment assumed to work: standard input delivers lines, every       *)
(* request sent receives a response with a status, response bodies of      *)
(* status 200 deserialize, and vouchers.txt can be created and written.    *)
(***************************************************************************)
EXTENDS Integers, Sequences, FiniteSets, TLC

VARIABLES
    pc,                           \* where main is blocked, or how it ended
    message,                      \* last line main printed on an exit path
    requested_code_count_string,  \* line read for "How many codes do you need"
    requested_code_count,         \* main.rs:139
    products,                     \* main.rs:175, ids of the listed products
    requested_product_id,         \* main.rs:194
    requests,                     \* HTTP requests sent so far, in order
    responses,                    \* statuses received so far; responses[i] answers requests[i]
    created_code_count,           \* main.rs:251
    file_open,                    \* File::create("vouchers.txt") has run (main.rs:253)
    vouchers_txt,                 \* lines of vouchers.txt on disk
    prior,                        \* lines vouchers.txt held before the run started
    always400                     \* the service answers 400 to every promotion-code request;
                                  \* otherwise it does so at most Max400 times

vars == <<pc, message, requested_code_count_string, requested_code_count,
          products, requested_product_id, requests, responses,
          created_code_count, file_open, vouchers_txt, prior,
          always400>>

----------------------------------------------------------------------------
(* Bounds of the exploration *)

MaxInputLen == 2     \* longest input line, in characters
MaxCount == 2        \* largest requested_code_count explored
MaxProducts == 2     \* longest product list the service returns
Max400 == 2          \* largest finite number of 400 answers to promotion codes
MaxAttempts == 3     \* promotion-code responses explored when the service always answers 400
RngBound == 2        \* rng.gen_range yields an index below RngBound

----------------------------------------------------------------------------
(* Status codes compared in main *)

OK == 200
BAD_REQUEST == 400
UNAUTHORIZED == 401

\* statuses the simulated service may answer with; 201 and 500 stand for
\* "any other non-200"
StatusCodes == {OK, BAD_REQUEST, UNAUTHORIZED} \cup {201, 500}

----------------------------------------------------------------------------
(* str::trim and str::parse *)

IsWhitespace(c) == c \in {" ", "\n", "\t", "\r"}

RECURSIVE TrimStart(_)
TrimStart(s) ==
    IF s = <<>> THEN s
    ELSE IF IsWhitespace(Head(s)) THEN TrimStart(Tail(s))
    ELSE s

RECURSIVE TrimEnd(_)
TrimEnd(s) ==
    IF s = <<>> THEN s
    ELSE IF IsWhitespace(s[Len(s)]) THEN TrimEnd(SubSeq(s, 1, Len(s) - 1))
    ELSE s

trim(s) == TrimEnd(TrimStart(s))

Digits == <<"0", "1", "2", "3", "4", "5", "6", "7", "8", "9">>

IsDigit(c) == \E d \in 1..Len(Digits) : Digits[d] = c

DigitVal(c) == (CHOOSE d \in 1..Len(Digits) : Digits[d] = c) - 1

RECURSIVE DigitsValue(_, _)
DigitsValue(ds, acc) ==
    IF ds = <<>> THEN acc
    ELSE DigitsValue(Tail(ds), acc * 10 + DigitVal(Head(ds)))

Err == [ok |-> FALSE, val |-> 0]
Ok(v) == [ok |-> TRUE, val |-> v]

\* <integer>::from_str: an optional sign ('-' only for a signed type), then
\* one or more decimal digits.  Inputs of at most MaxInputLen characters
\* cannot overflow i32 or usize, so the overflow error is not reachable here.
parse(s, is_signed_ty) ==
    IF s = <<>> THEN Err
    ELSE IF s = <<"+">> \/ s = <<"-">> THEN Err
    ELSE LET is_positive == ~(Head(s) = "-" /\ is_signed_ty)
             digits == IF Head(s) = "+" \/ (Head(s) = "-" /\ is_signed_ty)
                       THEN Tail(s) ELSE s
         IN  IF \E i \in 1..Len(digits) : ~IsDigit(digits[i]) THEN Err
             ELSE IF is_positive THEN Ok(DigitsValue(digits, 0))
             ELSE Ok(0 - DigitsValue(digits, 0))

----------------------------------------------------------------------------
(* generate_random_code *)

CHARSET == <<"A", "B", "C", "D", "E", "F", "G", "H", "I", "J", "K", "L", "M",
             "N", "O", "P", "Q", "R", "S", "T", "U", "V", "W", "X", "Y", "Z",
             "1", "2", "3", "4", "5", "6", "7", "8", "9", "0">>

STR_LEN == 6

\* the outcomes of the STR_LEN calls of rng.gen_range(0..CHARSET.len())
\* that the exploration covers: the calls of one code agree on an index below
\* RngBound
RngOutcomes ==
    {[i \in 1..STR_LEN |-> x] : x \in {y \in 0..(Len(CHARSET) - 1) : y < RngBound}}

generate_random_code(draws) == [i \in 1..STR_LEN |-> CHARSET[draws[i] + 1]]

----------------------------------------------------------------------------
(* Inputs *)

InputChars == {"0", "1", "2", "3", "-", "+", "x", " ", "\n"}

Lines == UNION {[1..n -> InputChars] : n \in 0..MaxInputLen}

\* code-count lines: every line that main rejects, and for the counts
\* 1..MaxCount the line "<count>\n" that read_line delivers
CountInputs ==
    {s \in Lines : LET r == parse(trim(s), TRUE) IN
        \/ ~r.ok
        \/ r.val <= 0
        \/ r.val <= MaxCount /\ s = <<Digits[r.val + 1], "\n">>}

SelectionInputs == Lines

ProductIds == [i \in 1..MaxProducts |-> <<"prod", i>>]

PriorContents == {<<>>, << <<"O", "L", "D">> >>}

----------------------------------------------------------------------------
(* Requests *)

first_time_transaction == FALSE

ProductListRequest == [kind |-> "products", method |-> "GET"]

CouponRequest(product) ==
    [kind |-> "coupon", method |-> "POST", percent_off |-> 100,
     applies_to |-> <<product>>]

PromotionCodeRequest(code) ==
    [kind |-> "promotion_code", method |-> "POST", code |-> code,
     max_redemptions |-> 1,
     restrictions |-> [first_time_transaction |-> first_time_transaction]]

----------------------------------------------------------------------------
(* Decisions of main *)

CountRejected_lt(count) == count < 0

CountRejected(count) == count <= 0

InvalidSelection_ge(id, len) == id >= len

InvalidSelection(id, len) == id > len

LoopCond_le(created, requested) == created <= requested

LoopCond(created, requested) == created < requested

PromoOutcome_401continues(status) ==
    IF status = UNAUTHORIZED THEN "continue"
    ELSE IF status = BAD_REQUEST THEN "continue"
    ELSE IF status # OK THEN "break"
    ELSE "created"

PromoOutcome_400counts(status) ==
    IF status = UNAUTHORIZED THEN "break"
    ELSE IF status = BAD_REQUEST THEN "created"
    ELSE IF status # OK THEN "break"
    ELSE "created"

PromoOutcome_400breaks(status) ==
    IF status = UNAUTHORIZED THEN "break"
    ELSE IF status # OK THEN "break"
    ELSE "created"

\* what one iteration does with the status of its response
PromoOutcome(status) ==
    IF status = UNAUTHORIZED THEN "break"
    ELSE IF status = BAD_REQUEST THEN "continue"
    ELSE IF status # OK THEN "break"
    ELSE "created"

FileCreate_keep(contents) == contents

\* File::create truncates an existing file
FileCreate(contents) == <<>>

WriteLn_prepend(contents, line) == <<line>> \o contents

WriteLn(contents, line) == Append(contents, line)

----------------------------------------------------------------------------
Init ==
    /\ pc = "date"
    /\ message = ""
    /\ requested_code_count_string = <<>>
    /\ requested_code_count = 0
    /\ products = <<>>
    /\ requested_product_id = 0
    /\ requests = <<>>
    /\ responses = <<>>
    /\ created_code_count = 0
    /\ file_open = FALSE
    /\ vouchers_txt \in PriorContents
    /\ prior = vouchers_txt
    /\ always400 \in BOOLEAN

Exit(msg) ==
    /\ pc' = "done"
    /\ message' = msg

\* main.rs:103-131: key, coupon name and expiration date are read; the date
\* either parses or the run aborts
EnterDate(parse_result) ==
    /\ pc = "date"
    /\ IF parse_result = "Ok"
       THEN /\ pc' = "count"
            /\ message' = message
       ELSE Exit("Cannot parse date. Aborting.")
    /\ UNCHANGED <<requested_code_count_string, requested_code_count, products,
                   requested_product_id, requests, responses, created_code_count,
                   file_open, vouchers_txt, prior, always400>>

\* main.rs:133-159: the code count is read and checked, then the product
\* listing is requested
EnterCount(line) ==
    /\ pc = "count"
    /\ requested_code_count_string' = line
    /\ LET parsed_requested_code_count == parse(trim(line), TRUE) IN
       IF ~parsed_requested_code_count.ok
       THEN /\ Exit("Cannot parse number of vouchers. Aborting.")
            /\ UNCHANGED <<requested_code_count, requests>>
       ELSE /\ requested_code_count' = parsed_requested_code_count.val
            /\ IF CountRejected(parsed_requested_code_count.val)
               THEN /\ Exit("Number of codes must be more than zero.")
                    /\ UNCHANGED requests
               ELSE /\ requests' = Append(requests, ProductListRequest)
                    /\ pc' = "awaitProducts"
                    /\ message' = message
    /\ UNCHANGED <<products, requested_product_id, responses, created_code_count,
                   file_open, vouchers_txt, prior, always400>>

\* main.rs:161-187: the listing's status is checked and the products shown
ProductsResponse(status, n) ==
    /\ pc = "awaitProducts"
    /\ responses' = Append(responses, status)
    /\ IF status = UNAUTHORIZED
       THEN /\ Exit("Unauthorized: Probably wrong stripe key")
            /\ UNCHANGED products
       ELSE IF status # OK
       THEN /\ Exit("Unexpected error")
            /\ UNCHANGED products
       ELSE /\ products' = SubSeq(ProductIds, 1, n)
            /\ IF n = 0
               THEN Exit("No available products")
               ELSE /\ pc' = "select"
                    /\ message' = message
    /\ UNCHANGED <<requested_code_count_string, requested_code_count,
                   requested_product_id, requests, created_code_count,
                   file_open, vouchers_txt, prior, always400>>

\* main.rs:189-227: the selection is read and checked, the coupon request is
\* built (indexing products) and sent
EnterSelection(line) ==
    /\ pc = "select"
    /\ LET parsed_requested_product_id == parse(trim(line), FALSE) IN
       IF ~parsed_requested_product_id.ok
       THEN /\ Exit("Cannot parse selected ID of product. Aborting.")
            /\ UNCHANGED <<requested_product_id, requests>>
       ELSE /\ requested_product_id' = parsed_requested_product_id.val
            /\ IF InvalidSelection(parsed_requested_product_id.val, Len(products))
               THEN /\ Exit("Invalid product selected")
                    /\ UNCHANGED requests
               ELSE IF parsed_requested_product_id.val + 1 \notin DOMAIN products
               THEN \* products[requested_product_id]: index out of bounds
                    /\ pc' = "panicked"
                    /\ message' = "index out of bounds"
                    /\ UNCHANGED requests
               ELSE /\ requests' = Append(requests,
                           CouponRequest(products[parsed_requested_product_id.val + 1]))
                    /\ pc' = "awaitCoupon"
                    /\ message' = message
    /\ UNCHANGED <<requested_code_count_string, requested_code_count, products,
                   responses, created_code_count, file_open, vouchers_txt, prior,
                   always400>>

\* main.rs:255-278: the loop head; an iteration generates a code and sends
\* its request
LoopHead(created, draws) ==
    IF LoopCond(created, requested_code_count)
    THEN /\ requests' = Append(requests,
                PromotionCodeRequest(generate_random_code(draws)))
         /\ pc' = "awaitPromo"
    ELSE /\ requests' = requests
         /\ pc' = "done"

\* main.rs:229-278: the coupon's status is checked, vouchers.txt is created
\* and the loop is entered
CouponResponse(status, draws) ==
    /\ pc = "awaitCoupon"
    /\ responses' = Append(responses, status)
    /\ IF status = UNAUTHORIZED
       THEN /\ Exit("Unauthorized: Probably wrong stripe key")
            /\ UNCHANGED <<requests, created_code_count, file_open, vouchers_txt>>
       ELSE IF status = BAD_REQUEST
       THEN /\ Exit("Coupon cannot be created")
            /\ UNCHANGED <<requests, created_code_count, file_open, vouchers_txt>>
       ELSE IF status # OK
       THEN /\ Exit("Unexpected error")
            /\ UNCHANGED <<requests, created_code_count, file_open, vouchers_txt>>
       ELSE /\ message' = "[ DONE ]"
            /\ created_code_count' = 0
            /\ file_open' = TRUE
            /\ vouchers_txt' = FileCreate(vouchers_txt)
            /\ LoopHead(0, draws)
    /\ UNCHANGED <<requested_code_count_string, requested_code_count, products,
                   requested_product_id, prior, always400>>

\* how many 400 answers the service has given to promotion-code requests
Given400 ==
    Cardinality({i \in 1..Len(responses) :
        requests[i].kind = "promotion_code" /\ responses[i] = BAD_REQUEST})

\* main.rs:280-300 and back to 255-278: the status of a promotion-code
\* response is checked, the code counted and written, and the loop goes round
PromoResponse(status, draws) ==
    /\ pc = "awaitPromo"
    /\ IF always400
       THEN /\ status = BAD_REQUEST
            /\ Len(responses) - 2 < MaxAttempts
       ELSE status = BAD_REQUEST => Given400 < Max400
    /\ responses' = Append(responses, status)
    /\ LET outcome == PromoOutcome(status) IN
       IF outcome = "break"
       THEN /\ Exit(IF status = UNAUTHORIZED
                    THEN "Unauthorized: Probably wrong stripe key"
                    ELSE "Unexpected error")
            /\ UNCHANGED <<requests, created_code_count, vouchers_txt>>
       ELSE IF outcome = "continue"
       THEN /\ message' = message
            /\ UNCHANGED <<created_code_count, vouchers_txt>>
            /\ LoopHead(created_code_count, draws)
       ELSE /\ created_code_count' = created_code_count + 1
            /\ message' = "Promotion code"
            /\ vouchers_txt' = WriteLn(vouchers_txt, requests[Len(requests)].code)
            /\ LoopHead(created_code_count + 1, draws)
    /\ UNCHANGED <<requested_code_count_string, requested_code_count, products,
                   requested_product_id, file_open, prior, always400>>

Next ==
    \/ \E parse_result \in {"Ok", "Err"} : EnterDate(parse_result)
    \/ \E line \in CountInputs : EnterCount(line)
    \/ \E status \in StatusCodes, n \in 0..MaxProducts : ProductsResponse(status, n)
    \/ \E line \in SelectionInputs : EnterSelection(line)
    \/ \E status \in StatusCodes, draws \in RngOutcomes : CouponResponse(status, draws)
    \/ \E status \in StatusCodes, draws \in RngOutcomes : PromoResponse(status, draws)

Spec == Init /\ [][Next]_vars

\* Termination does not depend on which codes are drawn: the fair
\* specification explores the same steps with the first rng outcome only.
LiveRngOutcomes == {[i \in 1..STR_LEN |-> 0]}

LiveNext ==
    \/ \E parse_result \in {"Ok", "Err"} : EnterDate(parse_result)
    \/ \E line \in CountInputs : EnterCount(line)
    \/ \E status \in StatusCodes, n \in 0..MaxProducts : ProductsResponse(status, n)
    \/ \E line \in SelectionInputs : EnterSelection(line)
    \/ \E status \in StatusCodes, draws \in LiveRngOutcomes : CouponResponse(status, draws)
    \/ \E status \in StatusCodes, draws \in LiveRngOutcomes : PromoResponse(status, draws)

\* every line asked for is entered and every request sent is answered
LiveSpec == Init /\ [][LiveNext]_vars /\ WF_vars(LiveNext)

----------------------------------------------------------------------------
(* Vocabulary of the properties *)

IsPromo(i) == requests[i].kind = "promotion_code"

PromoRequests == {i \in 1..Len(requests) : IsPromo(i)}

PromoAnswered == {i \in PromoRequests : i <= Len(responses)}

HasCoupon == \E i \in 1..Len(requests) : requests[i].kind = "coupon"

CouponOK ==
    \E i \in 1..Len(responses) : requests[i].kind = "coupon" /\ responses[i] = OK

\* codes of the promotion-code requests among the first n that were answered
\* 200, in the order they were answered
RECURSIVE CodesAnswered200(_)
CodesAnswered200(n) ==
    IF n = 0 THEN <<>>
    ELSE IF IsPromo(n) /\ n <= Len(responses) /\ responses[n] = OK
         THEN Append(CodesAnswered200(n - 1), requests[n].code)
         ELSE CodesAnswered200(n - 1)

CountRead == pc \notin {"date", "count"} /\ message # "Cannot parse date. Aborting."

\* the selection line was read and parsed as a number
Selected ==
    /\ products # <<>>
    /\ pc # "select"
    /\ message # "Cannot parse selected ID of product. Aborting."

\* the last answer received is one that stops the loop
FatalStop ==
    /\ responses # <<>>
    /\ responses[Len(responses)] \notin {OK, BAD_REQUEST}

\* this step receives a 400 answer to a promotion-code request
Promo400Step ==
    /\ pc = "awaitPromo"
    /\ Len(responses') = Len(responses) + 1
    /\ responses'[Len(responses')] = BAD_REQUEST

----------------------------------------------------------------------------
\* C1: whenever the service answers a request of any stage with 401, the run
\* has terminated and that request is the last one ever sent.
C1_Stop401 ==
    \A i \in 1..Len(responses) :
        responses[i] = UNAUTHORIZED => Len(requests) = i /\ pc = "done"

C1_Witness ==
    /\ created_code_count >= 1
    /\ \E i \in PromoAnswered : responses[i] = UNAUTHORIZED

\* C2: a 400 answer to a promotion-code request leaves the success counter and
\* the file unchanged and is followed by a new promotion-code request; when
\* the service answers promotion codes with 400 finitely often and with 200
\* otherwise, the loop ends with the counter equal to requested_code_count.
C2_Retry400 ==
    /\ [](pc = "done" /\ file_open
            /\ (\A i \in PromoAnswered : responses[i] \in {OK, BAD_REQUEST})
          => created_code_count = requested_code_count)
    /\ [][Promo400Step =>
            /\ created_code_count' = created_code_count
            /\ vouchers_txt' = vouchers_txt
            /\ Len(requests') = Len(requests) + 1
            /\ requests'[Len(requests')].kind = "promotion_code"]_vars

C2_Witness ==
    /\ pc = "done"
    /\ requested_code_count = 2
    /\ responses = <<OK, OK, BAD_REQUEST, BAD_REQUEST, OK, OK>>
    /\ vouchers_txt = <<requests[5].code, requests[6].code>>

\* C3 as stated: with N >= 1 products, a parsed selection k < N leads to the
\* coupon request for product k, k = N also leads to a coupon request, and
\* k > N is rejected without one.
C3_Original ==
    Selected =>
        LET k == requested_product_id
            N == Len(products)
        IN  /\ k < N => \E i \in 1..Len(requests) :
                            requests[i] = CouponRequest(products[k + 1])
            /\ k = N => HasCoupon
            /\ k > N => ~HasCoupon /\ message = "Invalid product selected"

\* C3 amended: k < N leads to the coupon request for product k; k = N passes
\* the bound check but the run panics indexing the product list, with no
\* coupon request sent; k > N is rejected without a coupon request.
C3_Selection ==
    Selected =>
        LET k == requested_product_id
            N == Len(products)
        IN  /\ k < N => \E i \in 1..Len(requests) :
                            requests[i] = CouponRequest(products[k + 1])
            /\ k = N => /\ ~HasCoupon
                        /\ pc = "panicked"
                        /\ message # "Invalid product selected"
            /\ k > N => ~HasCoupon /\ pc = "done" /\ message = "Invalid product selected"

C3_Witness ==
    /\ Selected
    /\ requested_product_id = Len(products)
    /\ pc = "panicked"

\* C4: the loop has no request outstanding once the success counter equals
\* requested_code_count; and when every request of the run was answered 200,
\* the run ends having sent exactly requested_code_count promotion-code
\* requests, with one line per created code in the file.
C4_ExactCount ==
    /\ file_open /\ created_code_count = requested_code_count => pc = "done"
    /\ (pc = "done" /\ CouponOK /\ \A i \in 1..Len(responses) : responses[i] = OK)
        => /\ Cardinality(PromoRequests) = requested_code_count
           /\ Len(vouchers_txt) = requested_code_count
           /\ \A j \in 1..Len(vouchers_txt) : vouchers_txt[j] = requests[2 + j].code

C4_Witness ==
    /\ pc = "done"
    /\ requested_code_count = 2
    /\ responses = <<OK, OK, OK, OK>>
    /\ Len(vouchers_txt) = 2

\* C5: once a code-count line that does not parse as an integer, or parses to
\* a value <= 0, has been read, the run has ended and no request was sent.
C5_BadCountNoRequest ==
    (CountRead /\ LET r == parse(trim(requested_code_count_string), TRUE)
                  IN  ~r.ok \/ r.val <= 0)
        => requests = <<>> /\ pc = "done"

C5_Witness ==
    /\ pc = "done"
    /\ requested_code_count_string = <<"0", "\n">>
    /\ requests = <<>>

\* C6: every promotion-code request carries max_redemptions = 1 and the
\* restriction first_time_transaction = true.
C6_SingleUseFirstTime ==
    \A i \in PromoRequests :
        /\ requests[i].max_redemptions = 1
        /\ requests[i].restrictions.first_time_transaction = TRUE

\* the service answers 400 to a promotion-code request whose code it has
\* already accepted in this run
ServiceRejectsDuplicates ==
    \A i, j \in PromoAnswered :
        (i < j /\ responses[i] = OK /\ requests[j].code = requests[i].code)
            => responses[j] = BAD_REQUEST

\* C7: against a service that rejects already accepted codes with 400, a run
\* that completes the loop leaves requested_code_count pairwise distinct
\* lines in the file.
C7_DistinctCodes ==
    (pc = "done" /\ file_open /\ created_code_count = requested_code_count
        /\ ServiceRejectsDuplicates)
    => /\ Len(vouchers_txt) = requested_code_count
       /\ \A a, b \in 1..Len(vouchers_txt) :
            a # b => vouchers_txt[a] # vouchers_txt[b]

C7_Witness ==
    /\ pc = "done"
    /\ requested_code_count = 2
    /\ created_code_count = 2
    /\ ServiceRejectsDuplicates
    /\ \E i, j \in PromoAnswered : i < j /\ requests[i].code = requests[j].code

\* C8: the loop has no retry ceiling.  With finitely many 400 answers the run
\* ends, with the counter equal to requested_code_count or on a fatal status;
\* with 400 for every promotion-code request each answer is followed by a new
\* request, the loop never ends, the counter stays 0 and nothing is written.
C8_NoRetryCeiling ==
    /\ (pc = "awaitPromo" /\ ~always400)
         ~> (pc = "done" /\ (\/ created_code_count = requested_code_count
                             \/ FatalStop))
    /\ [](always400 /\ file_open =>
            pc = "awaitPromo" /\ created_code_count = 0 /\ vouchers_txt = <<>>)
    /\ [][always400 /\ Promo400Step => Len(requests') = Len(requests) + 1]_vars

C8_Witness ==
    /\ always400
    /\ Cardinality(PromoAnswered) = MaxAttempts
    /\ Cardinality(PromoRequests) = MaxAttempts + 1

\* C9: vouchers.txt is created (truncated) exactly in the runs whose coupon
\* request was answered 200, before the first promotion-code request; in all
\* other runs the file keeps its prior contents.
C9_TruncateAtLoop ==
    /\ file_open <=> CouponOK
    /\ PromoRequests # {} => file_open
    /\ ~CouponOK => vouchers_txt = prior
    /\ (CouponOK /\ PromoAnswered = {}) => vouchers_txt = <<>>

C9_Witness ==
    /\ prior # <<>>
    /\ CouponOK
    /\ Cardinality(PromoRequests) = 1
    /\ vouchers_txt = <<>>

\* C10: from the moment the loop is reached, the lines of the file are the
\* codes of the promotion-code requests answered 200 so far, in that order;
\* their number is the success counter, which lies in
\* 0..requested_code_count; a fatal stop keeps the lines written before it.
C10_FileIsAccepted ==
    file_open =>
        /\ vouchers_txt = CodesAnswered200(Len(requests))
        /\ Len(vouchers_txt) = created_code_count
        /\ 0 <= created_code_count
        /\ created_code_count <= requested_code_count

C10_Witness ==
    /\ pc = "done"
    /\ requested_code_count = 2
    /\ responses = <<OK, OK, BAD_REQUEST, OK, 500>>
    /\ vouchers_txt = <<requests[4].code>>

====
